---------------------------- MODULE Spec2Model ----------------------------
(***************************************************************************)
(* Model of package hashtag (src/hashtag.go): extraction of hashtags,      *)
(* mentions and reply targets from text with the regular expressions       *)
(* valid_hashtag, valid_mention, valid_reply and the match-end filters     *)
(* invalid_hashtag_match_end and invalid_mention_match_end.                *)
(*                                                                         *)
(* A text is a sequence of Unicode code points.  Go strings are indexed by *)
(* byte, so every offset of the model is a byte offset of the UTF-8        *)
(* encoding of the text (UTF8Len, Off, Slice).  The regular expressions    *)
(* are evaluated with the leftmost-first, greedy semantics of Go's regexp  *)
(* package, and FindAllStringSubmatchIndex as its non-overlapping scan.    *)
(***************************************************************************)
EXTENDS Integers, Sequences, FiniteSets

VARIABLES text, pc, entities, values, reply

vars == <<text, pc, entities, values, reply>>

-----------------------------------------------------------------------------
(* Bounds of the checked inputs *)

\* texts are concatenations of at most MaxTokens tokens
MaxTokens == 4
\* longest run of name characters in the long-name texts
MaxRun == 22

-----------------------------------------------------------------------------
(* Code points named in the source *)

HASH == 35
FW_HASH == 65283
AT == 64
FW_AT == 65312
AMP == 38
COLON == 58
SLASH == 47
NEWLINE == 10
MaxNameLen == 20

-----------------------------------------------------------------------------
(* Go strings: UTF-8 byte indexing *)

UTF8Len(c) == IF c < 128 THEN 1 ELSE IF c < 2048 THEN 2 ELSE IF c < 65536 THEN 3 ELSE 4

RECURSIVE Off(_, _)
\* byte offset of the rune position i (0-based: i runes precede it)
Off(s, i) == IF i = 0 THEN 0 ELSE Off(s, i - 1) + UTF8Len(s[i])

\* len(s)
ByteLen(s) == Off(s, Len(s))

\* the rune position that starts at byte offset b (offsets are rune boundaries)
RunePos(s, b) == CHOOSE i \in 0..Len(s) : Off(s, i) = b

\* s[lo:hi]
Slice(s, lo, hi) == SubSeq(s, RunePos(s, lo) + 1, RunePos(s, hi))

\* strings.ContainsAny(s, chars)
ContainsAny(s, chars) == \E i \in 1..Len(s) : s[i] \in chars

-----------------------------------------------------------------------------
(* Character classes *)

\* unicode_spaces
IsUnicodeSpace(c) ==
    \/ c \in 9..13
    \/ c \in {32, 133, 160, 5760, 6158}
    \/ c \in 8192..8202
    \/ c \in {8232, 8233, 8239, 8287, 12288}

IsAsciiLetter(c) == c \in 65..90 \/ c \in 97..122

IsAsciiDigit(c) == c \in 48..57

\* \pL : the Unicode Letter category, on the blocks the checked texts use
\* (Basic Latin, Latin-1, Latin Extended A/B, Hiragana, Katakana, CJK)
IsUnicodeLetter(c) ==
    \/ IsAsciiLetter(c)
    \/ c \in 192..214 \/ c \in 216..246 \/ c \in 248..591
    \/ c \in 12353..12438 \/ c \in 12449..12538
    \/ c \in 19968..40959

\* \pM : the Unicode Mark category (Combining Diacritical Marks block)
IsUnicodeMark(c) == c \in 768..879

\* hashtag_letters = \pL\pM
IsHashtagLetter(c) == IsUnicodeLetter(c) \/ IsUnicodeMark(c)

\* hashtag_numerals = \p{Nd} (ASCII and fullwidth digits)
IsHashtagNumeral(c) == IsAsciiDigit(c) \/ c \in 65296..65305

\* hashtag_special_chars
IsHashtagSpecial(c) ==
    c \in {95, 8204, 8205, 42622, 1470, 1523, 1524, 12443, 12444, 12448,
           12539, 12291, 3851, 3852, 3853}

\* hashtag_letters_numerals_set
IsHashtagLetterNumeral(c) ==
    IsHashtagLetter(c) \/ IsHashtagNumeral(c) \/ IsHashtagSpecial(c)

\* variant of IsHashMarker: the class written as the range [#-\x{FF03}]
IsHashMarker_asRange(c) == c \in HASH..FW_HASH

\* (?:#|\x{FF03}) of valid_hashtag
IsHashMarker(c) == c = HASH \/ c = FW_HASH

\* variant of IsHashtagBoundary: the class without the ampersand
IsHashtagBoundary_noAmp(c) == ~IsHashtagLetterNumeral(c)

\* [^&hashtag_letters_numerals] of valid_hashtag
IsHashtagBoundary(c) == ~(c = AMP \/ IsHashtagLetterNumeral(c))

\* at_signs
IsAtSign(c) == c = AT \/ c = FW_AT

\* latin_accents_chars
IsLatinAccent(c) ==
    \/ c \in 192..214 \/ c \in 216..246 \/ c \in 248..255
    \/ c \in 256..591
    \/ c \in {595, 596, 598, 599, 601, 603, 611, 616, 623, 626, 649, 651}
    \/ c = 699
    \/ c \in 768..879
    \/ c \in 7680..7935

\* [A-Za-z0-9_]
IsNameChar(c) == IsAsciiLetter(c) \/ IsAsciiDigit(c) \/ c = 95

\* variant of IsMentionBoundary: the class without !#$%&*
IsMentionBoundary_noPunct(c) == ~(IsNameChar(c) \/ IsAtSign(c))

\* [^A-Za-z0-9_!#$%&*@\x{FF20}] of valid_mention
IsMentionBoundary(c) ==
    ~(IsNameChar(c) \/ c \in {33, 35, 36, 37, 38, 42} \/ IsAtSign(c))

-----------------------------------------------------------------------------
(* Matches: Go's index slices.  match[2k], match[2k+1] are the byte offsets *)
(* of group k; the model keeps rune positions while it scans and converts   *)
(* them with Off when the match is returned.                                *)

Max(S) == CHOOSE x \in S : \A y \in S : y <= x

Min(S) == CHOOSE x \in S : \A y \in S : x <= y

\* the match of a failed search (Go: nil)
NoMatch == << >>

\* a match of n groups given by rune positions, as byte offsets
ToOffsets(s, m) == [i \in DOMAIN m |-> Off(s, m[i])]

-----------------------------------------------------------------------------
(* valid_hashtag *)

\* (?m)^ at rune position p
IsLineStart(s, p) == p = 0 \/ s[p] = NEWLINE

\* greedy hashtag_letters_numerals_set* from position p: where it stops
HashtagRunEnd(s, p) ==
    CHOOSE e \in p..Len(s) :
        /\ \A k \in (p + 1)..e : IsHashtagLetterNumeral(s[k])
        /\ e = Len(s) \/ ~IsHashtagLetterNumeral(s[e + 1])

\* variant of HashtagBodyEnd: group 1 as set+, no letter asked for
HashtagBodyEnd_anyRun(s, b) ==
    IF HashtagRunEnd(s, b) = b THEN -1 ELSE HashtagRunEnd(s, b)

\* group 1, set* letter set*, from position b: its end position, or -1.
\* The first set* is greedy and backs off to the last letter of the run.
HashtagBodyEnd(s, b) ==
    LET run == HashtagRunEnd(s, b)
        ks  == {k \in b..(run - 1) : IsHashtagLetter(s[k + 1])}
    IN  IF ks = {} THEN -1 ELSE HashtagRunEnd(s, Max(ks) + 1)

\* the match of valid_hashtag that starts at position p, in rune positions
valid_hashtag_at(s, p) ==
    LET n == Len(s)
        viaStart == /\ IsLineStart(s, p)
                    /\ p < n
                    /\ IsHashMarker(s[p + 1])
                    /\ HashtagBodyEnd(s, p + 1) # -1
        viaChar  == /\ p + 1 < n
                    /\ IsHashtagBoundary(s[p + 1])
                    /\ IsHashMarker(s[p + 2])
                    /\ HashtagBodyEnd(s, p + 2) # -1
    IN  IF viaStart
        THEN [i \in 0..3 |-> IF i = 0 THEN p
                             ELSE IF i = 2 THEN p + 1
                             ELSE HashtagBodyEnd(s, p + 1)]
        ELSE IF viaChar
        THEN [i \in 0..3 |-> IF i = 0 THEN p
                             ELSE IF i = 2 THEN p + 2
                             ELSE HashtagBodyEnd(s, p + 2)]
        ELSE NoMatch

RECURSIVE valid_hashtag_scan_overlapping(_, _)
\* variant of valid_hashtag_scan: the search resumes one rune behind the
\* start of a match instead of at its end
valid_hashtag_scan_overlapping(s, pos) ==
    LET starts == {p \in pos..Len(s) : valid_hashtag_at(s, p) # NoMatch}
    IN  IF starts = {} THEN << >>
        ELSE LET m == valid_hashtag_at(s, Min(starts))
             IN  <<ToOffsets(s, m)>> \o valid_hashtag_scan_overlapping(s, m[0] + 1)

RECURSIVE valid_hashtag_scan(_, _)
\* the non-overlapping matches found from position pos on, left to right
valid_hashtag_scan(s, pos) ==
    LET starts == {p \in pos..Len(s) : valid_hashtag_at(s, p) # NoMatch}
    IN  IF starts = {} THEN << >>
        ELSE LET m == valid_hashtag_at(s, Min(starts))
             IN  <<ToOffsets(s, m)>> \o valid_hashtag_scan(s, m[1])

\* valid_hashtag.FindAllStringSubmatchIndex(text, -1)
valid_hashtag_FindAll(s) == valid_hashtag_scan(s, 0)

\* variant of invalid_hashtag_match_end: the fullwidth marker never matches
invalid_hashtag_match_end_asciiOnly(s) ==
    \/ Len(s) >= 1 /\ s[1] = HASH
    \/ Len(s) >= 3 /\ SubSeq(s, 1, 3) = <<COLON, SLASH, SLASH>>

\* invalid_hashtag_match_end.MatchString(s)
invalid_hashtag_match_end(s) ==
    \/ Len(s) >= 1 /\ s[1] \in {HASH, FW_HASH}
    \/ Len(s) >= 3 /\ SubSeq(s, 1, 3) = <<COLON, SLASH, SLASH>>

-----------------------------------------------------------------------------
(* Entities *)

\* Entity{Start: match[2], End: match[3], Value: text[match[2]:match[3]]}
HashtagEntity(s, match) ==
    [Start |-> match[2], End |-> match[3], Value |-> Slice(s, match[2], match[3])]

RECURSIVE HashtagLoop(_, _, _)
\* for _, match := range matches { if !invalid...(text[match[1]:]) { append } }
HashtagLoop(s, matches, i) ==
    IF i > Len(matches) THEN << >>
    ELSE LET match == matches[i]
         IN  (IF ~invalid_hashtag_match_end(Slice(s, match[1], ByteLen(s)))
              THEN <<HashtagEntity(s, match)>>
              ELSE << >>) \o HashtagLoop(s, matches, i + 1)

\* the body of ExtractHashtagsWithIndices after its early return
HashtagScan(s) == HashtagLoop(s, valid_hashtag_FindAll(s), 1)

\* variant of HashtagFastPathMarkers: the early return looks for '#' only
HashtagFastPathMarkers_asciiOnly == {HASH}

\* the markers the early return of ExtractHashtagsWithIndices looks for
HashtagFastPathMarkers == {HASH, FW_HASH}

ExtractHashtagsWithIndices(s) ==
    IF Len(s) = 0 \/ ~ContainsAny(s, HashtagFastPathMarkers)
    THEN << >>
    ELSE HashtagScan(s)

\* ret[j] = entity.Value
EntityValues(es) == [j \in 1..Len(es) |-> es[j].Value]

ExtractHashtags(s) == EntityValues(ExtractHashtagsWithIndices(s))

-----------------------------------------------------------------------------
(* valid_mention *)

\* greedy at_signs+ from position p: where it stops (p itself: no at sign)
AtRunEnd(s, p) ==
    CHOOSE e \in p..Len(s) :
        /\ \A k \in (p + 1)..e : IsAtSign(s[k])
        /\ e = Len(s) \/ ~IsAtSign(s[e + 1])

\* greedy [A-Za-z0-9_]{1,20} from position p: where it stops (p itself: no match)
NameRunEnd(s, p) ==
    CHOOSE e \in p..Len(s) :
        /\ e <= p + MaxNameLen
        /\ \A k \in (p + 1)..e : IsNameChar(s[k])
        /\ e = Len(s) \/ e = p + MaxNameLen \/ ~IsNameChar(s[e + 1])

\* (at_signs+)([A-Za-z0-9_]{1,20}) matches from position p
MentionTailMatches(s, p) ==
    /\ AtRunEnd(s, p) > p
    /\ NameRunEnd(s, AtRunEnd(s, p)) > AtRunEnd(s, p)

\* a match of valid_mention with group 1 = [p, q), in rune positions
MentionMatch(s, p, q) ==
    LET a == AtRunEnd(s, q)
        e == NameRunEnd(s, a)
    IN  [i \in 0..7 |-> IF i = 0 \/ i = 2 THEN p
                        ELSE IF i = 3 \/ i = 4 THEN q
                        ELSE IF i = 5 \/ i = 6 THEN a
                        ELSE e]

\* [Rr][tT] at position p
IsRTAt(s, p) == p + 1 < Len(s) /\ s[p + 1] \in {82, 114} /\ s[p + 2] \in {116, 84}

\* the match of valid_mention that starts at position p: the alternatives of
\* group 1 in their order, [^...] | ^ | [Rr][tT]:? with a greedy colon
valid_mention_at(s, p) ==
    LET n == Len(s)
    IN  IF p < n /\ IsMentionBoundary(s[p + 1]) /\ MentionTailMatches(s, p + 1)
        THEN MentionMatch(s, p, p + 1)
        ELSE IF p = 0 /\ MentionTailMatches(s, p)
        THEN MentionMatch(s, p, p)
        ELSE IF IsRTAt(s, p) /\ p + 2 < n /\ s[p + 3] = COLON
                /\ MentionTailMatches(s, p + 3)
        THEN MentionMatch(s, p, p + 3)
        ELSE IF IsRTAt(s, p) /\ MentionTailMatches(s, p + 2)
        THEN MentionMatch(s, p, p + 2)
        ELSE NoMatch

RECURSIVE valid_mention_scan(_, _)
valid_mention_scan(s, pos) ==
    LET starts == {p \in pos..Len(s) : valid_mention_at(s, p) # NoMatch}
    IN  IF starts = {} THEN << >>
        ELSE LET m == valid_mention_at(s, Min(starts))
             IN  <<ToOffsets(s, m)>> \o valid_mention_scan(s, m[1])

\* valid_mention.FindAllStringSubmatchIndex(text, -1)
valid_mention_FindAll(s) == valid_mention_scan(s, 0)

\* variant of invalid_mention_match_end: the class without latin_accents_chars
invalid_mention_match_end_noAccents(s) ==
    \/ Len(s) >= 1 /\ IsAtSign(s[1])
    \/ Len(s) >= 3 /\ SubSeq(s, 1, 3) = <<COLON, SLASH, SLASH>>

\* invalid_mention_match_end.MatchString(s)
invalid_mention_match_end(s) ==
    \/ Len(s) >= 1 /\ (IsAtSign(s[1]) \/ IsLatinAccent(s[1]))
    \/ Len(s) >= 3 /\ SubSeq(s, 1, 3) = <<COLON, SLASH, SLASH>>

\* variant of MentionEntity: group 2, the markers, taken for group 3, the name
MentionEntity_group2(s, match) ==
    [Start |-> match[4], End |-> match[5], Value |-> Slice(s, match[4], match[5])]

\* Entity{Start: match[6], End: match[7], Value: text[match[6]:match[7]]}
MentionEntity(s, match) ==
    [Start |-> match[6], End |-> match[7], Value |-> Slice(s, match[6], match[7])]

RECURSIVE MentionLoop(_, _, _)
MentionLoop(s, matches, i) ==
    IF i > Len(matches) THEN << >>
    ELSE LET match == matches[i]
         IN  (IF ~invalid_mention_match_end(Slice(s, match[1], ByteLen(s)))
              THEN <<MentionEntity(s, match)>>
              ELSE << >>) \o MentionLoop(s, matches, i + 1)

\* the body of ExtractMentionsWithIndices after its early return
MentionScan(s) == MentionLoop(s, valid_mention_FindAll(s), 1)

\* the markers the early returns of ExtractMentionsWithIndices and ExtractReply look for
MentionFastPathMarkers == {AT, FW_AT}

ExtractMentionsWithIndices(s) ==
    IF Len(s) = 0 \/ ~ContainsAny(s, MentionFastPathMarkers)
    THEN << >>
    ELSE MentionScan(s)

ExtractMentions(s) == EntityValues(ExtractMentionsWithIndices(s))

-----------------------------------------------------------------------------
(* valid_reply *)

\* variant of IsTextStart: ^ under the multi-line flag
IsTextStart_multiline(s, p) == p = 0 \/ s[p] = NEWLINE

\* ^ at rune position p (no multi-line flag)
IsTextStart(s, p) == p = 0

\* greedy (?:unicode_spaces)* from position p: where it stops
SpaceRunEnd(s, p) ==
    CHOOSE e \in p..Len(s) :
        /\ \A k \in (p + 1)..e : IsUnicodeSpace(s[k])
        /\ e = Len(s) \/ ~IsUnicodeSpace(s[e + 1])

\* the match of valid_reply that starts at position p, in rune positions
valid_reply_at(s, p) ==
    LET w == SpaceRunEnd(s, p)
    IN  IF /\ IsTextStart(s, p)
           /\ w < Len(s)
           /\ IsAtSign(s[w + 1])
           /\ NameRunEnd(s, w + 1) > w + 1
        THEN [i \in 0..3 |-> IF i = 0 THEN p
                             ELSE IF i = 2 THEN w + 1
                             ELSE NameRunEnd(s, w + 1)]
        ELSE NoMatch

RECURSIVE valid_reply_scan(_, _)
valid_reply_scan(s, pos) ==
    LET starts == {p \in pos..Len(s) : valid_reply_at(s, p) # NoMatch}
    IN  IF starts = {} THEN << >>
        ELSE LET m == valid_reply_at(s, Min(starts))
             IN  <<ToOffsets(s, m)>> \o valid_reply_scan(s, m[1])

\* valid_reply.FindAllStringSubmatchIndex(text, -1)
valid_reply_FindAll(s) == valid_reply_scan(s, 0)

RECURSIVE ReplyLoop(_, _, _)
\* for _, match := range matches { if !invalid...(text[match[1]:]) { return ... } }; return ""
ReplyLoop(s, matches, i) ==
    IF i > Len(matches) THEN << >>
    ELSE LET match == matches[i]
         IN  IF ~invalid_mention_match_end(Slice(s, match[1], ByteLen(s)))
             THEN Slice(s, match[2], match[3])
             ELSE ReplyLoop(s, matches, i + 1)

\* the body of ExtractReply after its early return
ReplyScan(s) == ReplyLoop(s, valid_reply_FindAll(s), 1)

ExtractReply(s) ==
    IF Len(s) = 0 \/ ~ContainsAny(s, MentionFastPathMarkers)
    THEN << >>
    ELSE ReplyScan(s)

-----------------------------------------------------------------------------
(* The checked texts *)

\* pieces of hashtag texts: # U+FF03 a 1 & newline and ://
HashtagTokens ==
    {<<HASH>>, <<FW_HASH>>, <<97>>, <<49>>, <<AMP>>, <<NEWLINE>>,
     <<COLON, SLASH, SLASH>>}

\* pieces of mention and reply texts: @ U+FF20 a RT : e-acute ! newline
MentionTokens ==
    {<<AT>>, <<FW_AT>>, <<97>>, <<82, 84>>, <<COLON>>, <<233>>, <<33>>,
     <<NEWLINE>>}

RECURSIVE Flatten(_)
Flatten(ts) == IF ts = << >> THEN << >> ELSE Head(ts) \o Flatten(Tail(ts))

TokenTexts(T) == {Flatten(ts) : ts \in UNION {[1..n -> T] : n \in 0..MaxTokens}}

\* k times the letter a
Run(k) == [i \in 1..k |-> 97]

\* names around the 20 character limit, behind a marker, with or without a suffix
LongNameTexts ==
    {pre \o Run(k) \o suf :
        pre \in {<<AT>>, <<32, FW_AT>>, <<33, AT>>, <<82, 84, AT>>, <<HASH>>},
        k \in (MaxNameLen - 1)..MaxRun,
        suf \in {<< >>, <<AT>>, <<233>>, <<32, AT, 97>>}}

\* one hashtag candidate: what precedes the marker, the marker, a body
\* (a, 1, e-acute _) and what follows it
HashtagSegments ==
    {sep \o mark \o body \o suf :
        sep \in {<< >>, <<32>>, <<AMP>>, <<NEWLINE>>},
        mark \in {<<HASH>>, <<FW_HASH>>},
        body \in {<<97>>, <<49>>, <<233, 95>>},
        suf \in {<< >>, <<HASH>>, <<FW_HASH>>, <<COLON, SLASH, SLASH>>}}

\* one mention candidate: what precedes the markers, the markers, a name
\* (a, a_1) and what follows it
MentionSegments ==
    {sep \o mark \o name \o suf :
        sep \in {<< >>, <<32>>, <<33>>, <<114, 116, COLON>>},
        mark \in {<<AT>>, <<FW_AT>>, <<AT, AT>>},
        name \in {<<97>>, <<97, 95, 49>>},
        suf \in {<< >>, <<233>>, <<COLON, SLASH, SLASH>>}}

\* texts of two candidates
PairTexts ==
    {a \o b : a \in HashtagSegments, b \in HashtagSegments}
        \cup {a \o b : a \in MentionSegments, b \in MentionSegments}

\* texts of three candidates, each ended or not by a rejecting suffix
TripleTexts ==
    LET H == {<<32, HASH, 97>> \o suf :
                 suf \in {<< >>, <<HASH>>, <<COLON, SLASH, SLASH>>}}
        M == {<<32, AT, 97>> \o suf :
                 suf \in {<< >>, <<AT>>, <<COLON, SLASH, SLASH>>}}
    IN  {a \o b \o c : a \in H, b \in H, c \in H}
            \cup {a \o b \o c : a \in M, b \in M, c \in M}

Texts ==
    TokenTexts(HashtagTokens) \cup TokenTexts(MentionTokens)
        \cup LongNameTexts \cup PairTexts \cup TripleTexts

-----------------------------------------------------------------------------
(* The calls *)

Init ==
    /\ text \in Texts
    /\ pc = "idle"
    /\ entities = << >>
    /\ values = << >>
    /\ reply = << >>

CallExtractHashtagsWithIndices ==
    /\ pc = "idle"
    /\ pc' = "ExtractHashtagsWithIndices"
    /\ entities' = ExtractHashtagsWithIndices(text)
    /\ UNCHANGED <<text, values, reply>>

CallExtractHashtags ==
    /\ pc = "idle"
    /\ pc' = "ExtractHashtags"
    /\ values' = ExtractHashtags(text)
    /\ UNCHANGED <<text, entities, reply>>

CallExtractMentionsWithIndices ==
    /\ pc = "idle"
    /\ pc' = "ExtractMentionsWithIndices"
    /\ entities' = ExtractMentionsWithIndices(text)
    /\ UNCHANGED <<text, values, reply>>

CallExtractMentions ==
    /\ pc = "idle"
    /\ pc' = "ExtractMentions"
    /\ values' = ExtractMentions(text)
    /\ UNCHANGED <<text, entities, reply>>

CallExtractReply ==
    /\ pc = "idle"
    /\ pc' = "ExtractReply"
    /\ reply' = ExtractReply(text)
    /\ UNCHANGED <<text, entities, values>>

Next ==
    \/ CallExtractHashtagsWithIndices
    \/ CallExtractHashtags
    \/ CallExtractMentionsWithIndices
    \/ CallExtractMentions
    \/ CallExtractReply

Spec == Init /\ [][Next]_vars

-----------------------------------------------------------------------------
(* Vocabulary of the properties *)

\* b is the byte offset of a rune boundary of s
IsBoundary(s, b) == \E i \in 0..Len(s) : Off(s, i) = b

\* the runes of s from byte offset b on
RestAt(s, b) == SubSeq(s, RunePos(s, b) + 1, Len(s))

StartsWithScheme(r) == Len(r) >= 3 /\ r[1] = 58 /\ r[2] = 47 /\ r[3] = 47

\* r begins with # , U+FF03 or ://
StartsWithHashOrScheme(r) ==
    \/ Len(r) >= 1 /\ (r[1] = 35 \/ r[1] = 65283)
    \/ StartsWithScheme(r)

\* the Latin accent range: U+00C0-U+024F minus U+00D7 and U+00F7, the IPA
\* code points, U+02BB, U+0300-U+036F, U+1E00-U+1EFF
InLatinAccentRange(c) ==
    \/ c \in (192..591) \ {215, 247}
    \/ c \in {595, 596, 598, 599, 601, 603, 611, 616, 623, 626, 649, 651, 699}
    \/ c \in 768..879
    \/ c \in 7680..7935

\* r begins with @ , U+FF20, :// or a Latin accent character
StartsWithAtAccentOrScheme(r) ==
    \/ Len(r) >= 1 /\ (r[1] = 64 \/ r[1] = 65312 \/ InLatinAccentRange(r[1]))
    \/ StartsWithScheme(r)

\* the candidates of a scan that its boundary validator rejects
RejectedHashtagMatches ==
    {i \in 1..Len(valid_hashtag_FindAll(text)) :
        invalid_hashtag_match_end(RestAt(text, valid_hashtag_FindAll(text)[i][1]))}

RejectedMentionMatches ==
    {i \in 1..Len(valid_mention_FindAll(text)) :
        invalid_mention_match_end(RestAt(text, valid_mention_FindAll(text)[i][1]))}

-----------------------------------------------------------------------------
(* C1 *)

\* C1: no entity returned by ExtractHashtagsWithIndices has its body
\* immediately followed in the text by '#', by U+FF03 or by "://".
C1_HashtagNotFollowedByMarkerOrScheme ==
    pc = "ExtractHashtagsWithIndices" =>
        \A i \in 1..Len(entities) :
            /\ IsBoundary(text, entities[i].End)
            /\ ~StartsWithHashOrScheme(RestAt(text, entities[i].End))

\* a text with a candidate rejected for a following U+FF03 and, from another
\* candidate, an entity
C1_Witness ==
    /\ pc = "ExtractHashtagsWithIndices"
    /\ Len(entities) = 1
    /\ \E i \in RejectedHashtagMatches :
          RestAt(text, valid_hashtag_FindAll(text)[i][1])[1] = FW_HASH

-----------------------------------------------------------------------------
(* C2 *)

\* a marker followed to the end of the text by numerals and special joiners only
IsMarkerAndNonLetters(s) ==
    /\ Len(s) >= 2
    /\ IsHashMarker(s[1])
    /\ \A k \in 2..Len(s) : IsHashtagNumeral(s[k]) \/ IsHashtagSpecial(s[k])

\* C2: every value returned by ExtractHashtags consists of letters, marks,
\* decimal digits and special joiners only and holds at least one letter or
\* mark; a marker followed only by numerals and special joiners yields nothing.
C2_HashtagBodyHasLetter ==
    pc = "ExtractHashtags" =>
        /\ \A i \in 1..Len(values) :
              /\ \A k \in 1..Len(values[i]) :
                    \/ IsUnicodeLetter(values[i][k]) \/ IsUnicodeMark(values[i][k])
                    \/ IsHashtagNumeral(values[i][k]) \/ IsHashtagSpecial(values[i][k])
              /\ \E k \in 1..Len(values[i]) :
                    IsUnicodeLetter(values[i][k]) \/ IsUnicodeMark(values[i][k])
        /\ IsMarkerAndNonLetters(text) => values = << >>

\* "#1" yields nothing and the hashtag after it, of a letter and a joiner, is returned
C2_Witness ==
    /\ pc = "ExtractHashtags"
    /\ Len(text) > 2
    /\ SubSeq(text, 1, 2) = <<HASH, 49>>
    /\ values = << <<233, 95>> >>

-----------------------------------------------------------------------------
(* C3 *)

\* the rune position (0-based) of the marker of the entity that starts at byte b
MarkerPos(s, b) == RunePos(s, b) - 1

\* the marker at position p may start a hashtag: start of text, start of a
\* line, or after a character outside letters, marks, digits, joiners and &
HashtagMayStartAt(s, p) ==
    \/ p = 0
    \/ s[p] = 10
    \/ ~(\/ IsUnicodeLetter(s[p]) \/ IsUnicodeMark(s[p]) \/ IsHashtagNumeral(s[p])
         \/ IsHashtagSpecial(s[p]) \/ s[p] = 38)

\* the hashtag that a marker at position p would give: the run of body
\* characters behind it holds a letter and is not followed by a rejecting suffix
HasAcceptableBody(s, p) ==
    /\ p < Len(s)
    /\ IsHashMarker(s[p + 1])
    /\ HashtagBodyEnd(s, p + 1) # -1
    /\ ~StartsWithHashOrScheme(SubSeq(s, HashtagBodyEnd(s, p + 1) + 1, Len(s)))

\* C3: a hashtag is returned only if its marker is at the start of the text,
\* right after a newline, or preceded by a character outside letters, marks,
\* digits, special joiners and '&'; and a marker right after a newline gives
\* its hashtag exactly as a marker at the start of the text does.
C3_HashtagAnchor ==
    pc = "ExtractHashtagsWithIndices" =>
        /\ \A i \in 1..Len(entities) :
              /\ IsBoundary(text, entities[i].Start)
              /\ MarkerPos(text, entities[i].Start) >= 0
              /\ HashtagMayStartAt(text, MarkerPos(text, entities[i].Start))
        /\ \A p \in 0..Len(text) :
              (p = 0 \/ text[p] = 10) /\ HasAcceptableBody(text, p) =>
                  \E i \in 1..Len(entities) : entities[i].Start = Off(text, p + 1)

\* a marker behind '&' gives nothing, the same marker behind a newline a hashtag
C3_Witness ==
    /\ pc = "ExtractHashtagsWithIndices"
    /\ Len(text) >= 6
    /\ SubSeq(text, 1, 4) = <<AMP, HASH, 97, NEWLINE>>
    /\ IsHashMarker(text[5])
    /\ Len(entities) = 1
    /\ MarkerPos(text, entities[1].Start) = 4

-----------------------------------------------------------------------------
(* C4 *)

\* the entity e lies in s, on rune boundaries, and its value is s[Start:End]
EntityInText(s, e) ==
    /\ 0 <= e.Start
    /\ e.Start <= e.End
    /\ e.End <= ByteLen(s)
    /\ IsBoundary(s, e.Start)
    /\ IsBoundary(s, e.End)
    /\ e.Value = SubSeq(s, RunePos(s, e.Start) + 1, RunePos(s, e.End))

\* the character that ends at byte offset b of s is one of the markers
MarkerEndsAt(s, b, markers) ==
    /\ IsBoundary(s, b)
    /\ RunePos(s, b) >= 1
    /\ s[RunePos(s, b)] \in markers

\* C4: every entity of ExtractHashtagsWithIndices and ExtractMentionsWithIndices
\* has 0 <= Start <= End <= len(text) and Value = text[Start:End] in bytes, and
\* the character that ends at Start is the marker ('#', U+FF03; '@', U+FF20).
C4_EntityOffsets ==
    /\ pc = "ExtractHashtagsWithIndices" =>
          \A i \in 1..Len(entities) :
              /\ EntityInText(text, entities[i])
              /\ MarkerEndsAt(text, entities[i].Start, {35, 65283})
    /\ pc = "ExtractMentionsWithIndices" =>
          \A i \in 1..Len(entities) :
              /\ EntityInText(text, entities[i])
              /\ MarkerEndsAt(text, entities[i].Start, {64, 65312})

\* a hashtag behind a three-byte marker whose value holds a two-byte letter:
\* byte offsets and rune positions differ
C4_Witness ==
    /\ pc = "ExtractHashtagsWithIndices"
    /\ \E i \in 1..Len(entities) :
          /\ text[RunePos(text, entities[i].Start)] = FW_HASH
          /\ entities[i].Start > RunePos(text, entities[i].Start)
          /\ entities[i].End - entities[i].Start > Len(entities[i].Value)

-----------------------------------------------------------------------------
(* C5 *)

\* the entities are in text order and none overlaps the next
InOrderDisjoint(es) ==
    \A i \in 1..(Len(es) - 1) : es[i].Start <= es[i].End /\ es[i].End <= es[i + 1].Start

\* no entity holds a byte of the rejected match m
ClearOfMatch(es, m) ==
    \A i \in 1..Len(es) : es[i].End <= m[0] \/ m[1] <= es[i].Start

\* C5: the entities of one call of ExtractHashtagsWithIndices, and of one call
\* of ExtractMentionsWithIndices, are in left-to-right order and do not
\* overlap (End of one <= Start of the next), and none of them overlaps a
\* candidate that the boundary validator rejected.
C5_OrderedNonOverlapping ==
    /\ pc = "ExtractHashtagsWithIndices" =>
          /\ InOrderDisjoint(entities)
          /\ \A i \in RejectedHashtagMatches :
                ClearOfMatch(entities, valid_hashtag_FindAll(text)[i])
    /\ pc = "ExtractMentionsWithIndices" =>
          /\ InOrderDisjoint(entities)
          /\ \A i \in RejectedMentionMatches :
                ClearOfMatch(entities, valid_mention_FindAll(text)[i])

\* two entities with a rejected candidate between them
C5_Witness ==
    /\ pc = "ExtractHashtagsWithIndices"
    /\ Len(entities) = 2
    /\ \E i \in RejectedHashtagMatches :
          /\ entities[1].End <= valid_hashtag_FindAll(text)[i][0]
          /\ valid_hashtag_FindAll(text)[i][1] <= entities[2].Start

-----------------------------------------------------------------------------
(* C6 *)

\* s with the marker at index i replaced by the other hash marker
SwapHashMarker(s, i) ==
    [s EXCEPT ![i] = IF s[i] = HASH THEN FW_HASH ELSE HASH]

\* C6: replacing an occurrence of '#' by U+FF03, or of U+FF03 by '#', leaves
\* the values returned by ExtractHashtags unchanged.
C6_FullwidthMarkerEquivalence ==
    pc = "ExtractHashtags" =>
        \A i \in 1..Len(text) :
            IsHashMarker(text[i]) => ExtractHashtags(SwapHashMarker(text, i)) = values

\* a text with both markers, one of them as the suffix that rejects a
\* candidate, and a hashtag returned
C6_Witness ==
    /\ pc = "ExtractHashtags"
    /\ values # << >>
    /\ \E i \in RejectedHashtagMatches :
          RestAt(text, valid_hashtag_FindAll(text)[i][1])[1] = FW_HASH
    /\ \E i \in 1..Len(text) : text[i] = HASH

-----------------------------------------------------------------------------
(* C7 *)

\* C7: on a text with none of the kind's markers the call returns the empty
\* sequence (ExtractReply: the empty string), and that is what the scan and
\* the boundary validation return without the early return.
C7_FastPathPreserves ==
    /\ pc = "ExtractHashtagsWithIndices" /\ ~ContainsAny(text, {35, 65283}) =>
          entities = << >> /\ HashtagScan(text) = entities
    /\ pc = "ExtractHashtags" /\ ~ContainsAny(text, {35, 65283}) =>
          values = << >> /\ EntityValues(HashtagScan(text)) = values
    /\ pc = "ExtractMentionsWithIndices" /\ ~ContainsAny(text, {64, 65312}) =>
          entities = << >> /\ MentionScan(text) = entities
    /\ pc = "ExtractMentions" /\ ~ContainsAny(text, {64, 65312}) =>
          values = << >> /\ EntityValues(MentionScan(text)) = values
    /\ pc = "ExtractReply" /\ ~ContainsAny(text, {64, 65312}) =>
          reply = << >> /\ ReplyScan(text) = reply

\* a reply asked of a text that holds a hashtag and no at sign
C7_Witness ==
    /\ pc = "ExtractReply"
    /\ ~ContainsAny(text, {64, 65312})
    /\ ExtractHashtags(text) # << >>
    /\ reply = << >>

-----------------------------------------------------------------------------
(* C8 *)

\* what may stand before position p of s for a mention to start there: the
\* start of the text, a character outside letters, digits, underscore,
\* ! # $ % & * and the at signs, or RT in either case with or without a colon
MentionMayStartAt(s, p) ==
    \/ p = 0
    \/ ~(\/ s[p] \in 65..90 \/ s[p] \in 97..122 \/ s[p] \in 48..57
         \/ s[p] \in {95, 33, 35, 36, 37, 38, 42, 64, 65312})
    \/ p >= 2 /\ s[p - 1] \in {82, 114} /\ s[p] \in {84, 116}
    \/ p >= 3 /\ s[p - 2] \in {82, 114} /\ s[p - 1] \in {84, 116} /\ s[p] = 58

\* 1 to 20 ASCII letters, digits and underscores
IsName(v) ==
    /\ Len(v) \in 1..20
    /\ \A k \in 1..Len(v) :
          v[k] \in 65..90 \/ v[k] \in 97..122 \/ v[k] \in 48..57 \/ v[k] = 95

\* the position where the run of at signs that ends at position q begins
AtRunStart(s, q) ==
    CHOOSE r \in 0..q :
        /\ \A k \in (r + 1)..q : s[k] \in {64, 65312}
        /\ r = 0 \/ s[r] \notin {64, 65312}

\* C8 as stated: a mention is returned only if the marker character right
\* before the name is preceded by the start of the text, by RT/rt with or
\* without a colon, or by a character outside the excluded set; and every
\* name is 1 to 20 ASCII letters, digits and underscores.
C8_Original ==
    pc = "ExtractMentionsWithIndices" =>
        \A i \in 1..Len(entities) :
            /\ MarkerEndsAt(text, entities[i].Start, {64, 65312})
            /\ MentionMayStartAt(text, MarkerPos(text, entities[i].Start))
            /\ IsName(entities[i].Value)

\* C8 amended: a mention is returned only if the run of one or more marker
\* characters that ends right before the name is preceded by the start of
\* the text, by R/r T/t with or without a colon, or by a character outside
\* the excluded set; and every name is 1 to 20 ASCII letters, digits and
\* underscores.
C8_MentionAnchor ==
    pc = "ExtractMentionsWithIndices" =>
        \A i \in 1..Len(entities) :
            /\ MarkerEndsAt(text, entities[i].Start, {64, 65312})
            /\ MentionMayStartAt(text, AtRunStart(text, RunePos(text, entities[i].Start)))
            /\ IsName(entities[i].Value)

\* a name behind two markers, and in the same text a name behind an excluded
\* character that is not returned
C8_Witness ==
    /\ pc = "ExtractMentionsWithIndices"
    /\ Len(entities) = 1
    /\ RunePos(text, entities[1].Start) >= 2
    /\ text[RunePos(text, entities[1].Start) - 1] \in {64, 65312}
    /\ \E k \in 1..(Len(text) - 2) :
          text[k] = 33 /\ text[k + 1] \in {64, 65312} /\ text[k + 2] = 97

-----------------------------------------------------------------------------
(* C9 *)

\* where the name of the reply ends in s: behind the leading white space, one
\* marker and the name (a rune position)
ReplyEnd(s, name) ==
    (CHOOSE w \in 0..Len(s) :
        /\ \A k \in 1..w : IsUnicodeSpace(s[k])
        /\ w = Len(s) \/ ~IsUnicodeSpace(s[w + 1])) + 1 + Len(name)

\* C9: no name returned by ExtractMentionsWithIndices or ExtractReply has its
\* match immediately followed in the text by '@', U+FF20, "://" or a
\* character of the Latin accent range.
C9_MentionNotFollowedByAtAccentScheme ==
    /\ pc = "ExtractMentionsWithIndices" =>
          \A i \in 1..Len(entities) :
              /\ IsBoundary(text, entities[i].End)
              /\ ~StartsWithAtAccentOrScheme(RestAt(text, entities[i].End))
    /\ pc = "ExtractReply" /\ reply # << >> =>
          /\ ReplyEnd(text, reply) <= Len(text)
          /\ ~StartsWithAtAccentOrScheme(SubSeq(text, ReplyEnd(text, reply) + 1, Len(text)))

\* a candidate rejected for the accented letter behind it, and a mention returned
C9_Witness ==
    /\ pc = "ExtractMentionsWithIndices"
    /\ Len(entities) = 1
    /\ \E i \in RejectedMentionMatches :
          RestAt(text, valid_mention_FindAll(text)[i][1])[1] = 233

-----------------------------------------------------------------------------
(* C10 *)

\* s is white space, then one at sign, then name, which ends at the end of
\* the text, at 20 characters or before a character that is not a name character
IsReplyText(s, name) ==
    \E w \in 0..Len(s) :
        /\ \A k \in 1..w : IsUnicodeSpace(s[k])
        /\ w < Len(s)
        /\ s[w + 1] \in {64, 65312}
        /\ IsName(name)
        /\ w + 1 + Len(name) <= Len(s)
        /\ name = SubSeq(s, w + 2, w + 1 + Len(name))
        /\ \/ Len(name) = 20
           \/ w + 1 + Len(name) = Len(s)
           \/ ~IsNameChar(s[w + 2 + Len(name)])

\* C10: ExtractReply returns a name only when the text is leading white
\* space, one '@' or U+FF20, and the name of 1 to 20 ASCII letters, digits
\* and underscores; otherwise the empty string; and its scan gives at most
\* one candidate.
C10_ReplyOnlyAtTextStart ==
    pc = "ExtractReply" =>
        /\ reply # << >> => IsReplyText(text, reply)
        /\ Len(valid_reply_FindAll(text)) <= 1

\* a name returned from behind a leading newline, which is white space
C10_Witness ==
    /\ pc = "ExtractReply"
    /\ Len(text) >= 3
    /\ text[1] = NEWLINE
    /\ reply = <<97>>

=============================================================================
